---- MODULE Spec2Model ----
(***************************************************************************)
(* Model of the two core subsystems of the smartnode daemon:               *)
(*   - the validator Activity Process (package minipool), and              *)
(*   - the watchtower checkSoloMigrations task (package watchtower).       *)
(* Four specifications share one variable list; each one moves only its    *)
(* own part of the state and leaves the rest at its idle value.            *)
(*   SpecActivity : ActivityProcess event loop + blocked start() thread    *)
(*   SpecRun      : checkSoloMigrations.run single-flight guard            *)
(*   SpecClassify : the per-minipool body of the checkSoloMigrations loop  *)
(*   SpecScan     : the checkSoloMigrations loop with scrubVacantMinipool  *)
(***************************************************************************)
EXTENDS Integers, Sequences, FiniteSets, TLC

VARIABLES
    \* ---- ActivityProcess ----
    validatorActive,   \* p.validatorActive
    stop,              \* p.stop: "open" or "closed"
    panicked,          \* TRUE once close(p.stop) ran on a closed channel
    subscribed,        \* loop variable `subscribed` / bus subscriptions present
    mainPc,            \* position of the thread blocked in start()
    doneCount,         \* values sent on p.done
    activityCount,     \* Beacon.Send calls carrying an "activity" payload
    probeCount,        \* Beacon.Send calls carrying "get_validator_status"
    sendErrors,        \* Beacon.Send calls that returned an error (logged)
    eventsHandled,     \* number of connected/message events taken by the loop
    lastEvent,         \* the event the loop handled last (history)
    lastStatus,        \* code of the last applied own-key status (history)
    exitApplied,       \* an exit-family status has been applied (history)
    \* ---- checkSoloMigrations.run ----
    isRunning,         \* t.isRunning
    lock,              \* t.lock: Free or the holder
    pcRun,             \* position of each run() invocation
    pcGo,              \* position of each background goroutine
    scansStarted,      \* number of checkSoloMigrations(state) calls begun
    submits,           \* scrub submissions made so far by each goroutine's scan
    atlasArg,          \* the isAtlasDeployed argument each invocation was given
    \* ---- checkSoloMigrations loop body ----
    snap,              \* the snapshot entry under classification
    scrubs,            \* scrubVacantMinipool calls made for it, in order
    cpc,               \* "ready" before the loop body ran, "done" after
    \* ---- checkSoloMigrations scan + scrubVacantMinipool ----
    scanSnap,          \* the state *state.NetworkState handed to the scan
    scanPc,            \* "idle", "loop" (inside the range loop), "returned"
    scanNo,            \* how many scans of scanSnap have been started
    idx,               \* index of the next entry of state.MinipoolDetails
    cur,               \* index of the entry the loop body is working on
    pending,           \* scrubVacantMinipool calls the loop body has yet to make
    call,              \* the scrubVacantMinipool call in progress / last returned
    decisions,         \* per scan: the <<minipool, reason>> of every scrub call
    errorsReturned,    \* non-nil errors scrubVacantMinipool returned in this scan
    firstFailed,       \* the first minipool whose scrub call returned an error
    errLogged,         \* lines written to t.errLog in this scan
    wallClock          \* per scan: the auditing machine's time during it

activityVars == <<validatorActive, stop, panicked, subscribed, mainPc, doneCount,
                  activityCount, probeCount, sendErrors, eventsHandled,
                  lastEvent, lastStatus, exitApplied>>
runVars      == <<isRunning, lock, pcRun, pcGo, scansStarted, submits, atlasArg>>
classifyVars == <<snap, scrubs, cpc>>
scanVars     == <<scanSnap, scanPc, scanNo, idx, cur, pending, call, decisions,
                  errorsReturned, firstFailed, errLogged, wallClock>>
vars         == <<activityVars, runVars, classifyVars, scanVars>>

(***************************************************************************)
(* Bounds                                                                  *)
(***************************************************************************)
MaxEvents == 4      \* events the bus delivers to one Activity Process
NumRuns   == 2      \* run() invocations made by the scheduler
MaxScrubs == 1      \* scrub submissions inside one background scan
MaxSlot   == 4      \* largest BeaconSlotNumber of a snapshot
MaxMinipools == 2   \* entries of state.MinipoolDetails in a scanned snapshot
NumScans  == 2      \* scans made of one snapshot

(***************************************************************************)
(* ActivityProcess                                                         *)
(***************************************************************************)
HexDigits == <<"0","1","2","3","4","5","6","7","8","9","a","b","c","d","e","f">>

\* hex.EncodeToString: two lower-case digits per byte
RECURSIVE HexEncode(_)
HexEncode(bytes) ==
    IF bytes = <<>> THEN <<>>
    ELSE <<HexDigits[(Head(bytes) \div 16) + 1], HexDigits[(Head(bytes) % 16) + 1]>>
         \o HexEncode(Tail(bytes))

OwnKey   == <<171>>          \* p.minipool.Key.PublicKey.Marshal()
OtherKey == <<205>>          \* another validator's key

\* the pubkey strings a server message can carry: own key, a foreign key, the
\* own key written in upper case (a different string), and the empty string
\* of a message that has no pubkey field
WirePubkeys == {HexEncode(OwnKey), HexEncode(OtherKey), <<"A","B">>, <<>>}

ExitCodes   == {"exited", "withdrawable", "withdrawn"}
StatusCodes == {"inactive", "active", "pending"} \cup ExitCodes

NoCode == "-"

\* decoded beaconchain.ServerMessage values, plus one undecodable payload
ServerMessages ==
    [Message : {"validator_status"}, Pubkey : WirePubkeys, Code : StatusCodes]
    \cup [Message : {"epoch", "success", "error", "other"}, Pubkey : WirePubkeys,
          Code : {NoCode}]

Undecodable == [Message |-> "<garbage>", Pubkey |-> <<>>, Code |-> NoCode]

Payloads == ServerMessages \cup {Undecodable}

ConnectedEvent == [Message |-> "<connected>", Pubkey |-> <<>>, Code |-> NoCode]
NoEvent        == [Message |-> "<none>", Pubkey |-> <<>>, Code |-> NoCode]

\* json.Unmarshal succeeds
Decodes(m) == m # Undecodable

\* mutant: the pubkey check is missing
OwnPubkeyAny(m) == TRUE

\* the pubkey check of the validator_status case
OwnPubkey(m) == HexEncode(OwnKey) = m.Pubkey

\* a validator_status message the handler acts on
AppliedStatus(m) ==
    /\ Decodes(m)
    /\ m.Message = "validator_status"
    /\ OwnPubkey(m)
    /\ m.Code \in {"inactive", "active"} \cup ExitCodes

\* switch message.Status.Code: the value of p.validatorActive afterwards
StatusSetsActive(code, active) ==
    CASE code = "inactive" -> FALSE
      [] code = "active" -> TRUE
      [] code \in ExitCodes -> FALSE
      [] OTHER -> active

\* mutant: the "inactive" case closes p.stop as well
StatusClosesStopInactive(code) == code \in ExitCodes \cup {"inactive"}

\* switch message.Status.Code: whether close(p.stop) is executed
StatusClosesStop(code) == code \in ExitCodes

\* mutant: the epoch case sends without looking at the flag
EpochSendsAlways(active) == TRUE

\* case "epoch": the guard `if !p.validatorActive { break }`
EpochSends(active) == active

ActivityInit ==
    /\ validatorActive = FALSE
    /\ stop = "open"
    /\ panicked = FALSE
    /\ subscribed = TRUE
    /\ mainPc = "blocked"
    /\ doneCount = 0
    /\ activityCount = 0
    /\ probeCount = 0
    /\ sendErrors = 0
    /\ eventsHandled = 0
    /\ lastEvent = NoEvent
    /\ lastStatus = "none"
    /\ exitApplied = FALSE

\* the loop goroutine can take an event from the bus
LoopCanReceive ==
    /\ subscribed
    /\ ~panicked
    /\ eventsHandled < MaxEvents

\* mutant: the status request is only made while the validator is not active
onBeaconClientConnectedIfInactive ==
    /\ LoopCanReceive
    /\ IF validatorActive
       THEN UNCHANGED <<probeCount, sendErrors>>
       ELSE \E ok \in BOOLEAN :
              /\ probeCount' = probeCount + 1
              /\ sendErrors' = IF ok THEN sendErrors ELSE sendErrors + 1
    /\ eventsHandled' = eventsHandled + 1
    /\ lastEvent' = ConnectedEvent
    /\ UNCHANGED <<validatorActive, stop, panicked, subscribed, mainPc, doneCount,
                   activityCount, lastStatus, exitApplied>>
    /\ UNCHANGED <<runVars, classifyVars, scanVars>>

\* case <-connectedChannel: p.onBeaconClientConnected()
onBeaconClientConnected ==
    /\ LoopCanReceive
    /\ \E ok \in BOOLEAN :
         /\ probeCount' = probeCount + 1
         /\ sendErrors' = IF ok THEN sendErrors ELSE sendErrors + 1
    /\ eventsHandled' = eventsHandled + 1
    /\ lastEvent' = ConnectedEvent
    /\ UNCHANGED <<validatorActive, stop, panicked, subscribed, mainPc, doneCount,
                   activityCount, lastStatus, exitApplied>>
    /\ UNCHANGED <<runVars, classifyVars, scanVars>>

\* case eventData := <-messageChannel: p.onBeaconClientMessage(event.Message)
onBeaconClientMessage(m) ==
    /\ LoopCanReceive
    /\ eventsHandled' = eventsHandled + 1
    /\ lastEvent' = m
    /\ IF ~Decodes(m)
       THEN UNCHANGED <<validatorActive, stop, panicked, activityCount, sendErrors,
                        lastStatus, exitApplied>>
       ELSE IF m.Message = "validator_status"
       THEN IF ~OwnPubkey(m)
            THEN UNCHANGED <<validatorActive, stop, panicked, activityCount,
                             sendErrors, lastStatus, exitApplied>>
            ELSE /\ validatorActive' = StatusSetsActive(m.Code, validatorActive)
                 /\ IF StatusClosesStop(m.Code)
                    THEN /\ stop' = "closed"
                         /\ panicked' = (stop = "closed")
                    ELSE UNCHANGED <<stop, panicked>>
                 /\ lastStatus' = IF AppliedStatus(m) THEN m.Code ELSE lastStatus
                 /\ exitApplied' = (exitApplied \/ m.Code \in ExitCodes)
                 /\ UNCHANGED <<activityCount, sendErrors>>
       ELSE IF m.Message = "epoch"
       THEN /\ IF EpochSends(validatorActive)
               THEN \E ok \in BOOLEAN :
                      /\ activityCount' = activityCount + 1
                      /\ sendErrors' = IF ok THEN sendErrors ELSE sendErrors + 1
               ELSE UNCHANGED <<activityCount, sendErrors>>
            /\ UNCHANGED <<validatorActive, stop, panicked, lastStatus, exitApplied>>
       ELSE UNCHANGED <<validatorActive, stop, panicked, activityCount, sendErrors,
                        lastStatus, exitApplied>>
    /\ UNCHANGED <<subscribed, mainPc, doneCount, probeCount>>
    /\ UNCHANGED <<runVars, classifyVars, scanVars>>

\* case <-p.stop: RemoveSubscriber x2; subscribed = false
LoopStop ==
    /\ subscribed
    /\ ~panicked
    /\ stop = "closed"
    /\ subscribed' = FALSE
    /\ UNCHANGED <<validatorActive, stop, panicked, mainPc, doneCount, activityCount,
                   probeCount, sendErrors, eventsHandled, lastEvent, lastStatus,
                   exitApplied>>
    /\ UNCHANGED <<runVars, classifyVars, scanVars>>

\* start(): the select on <-p.stop returns, the ending line is logged
MainWake ==
    /\ ~panicked
    /\ mainPc = "blocked"
    /\ stop = "closed"
    /\ mainPc' = "signal"
    /\ UNCHANGED <<validatorActive, stop, panicked, subscribed, doneCount,
                   activityCount, probeCount, sendErrors, eventsHandled, lastEvent,
                   lastStatus, exitApplied>>
    /\ UNCHANGED <<runVars, classifyVars, scanVars>>

\* start(): p.done <- struct{}{} is received; start() returns
MainSignalDone ==
    /\ ~panicked
    /\ mainPc = "signal"
    /\ mainPc' = "returned"
    /\ doneCount' = doneCount + 1
    /\ UNCHANGED <<validatorActive, stop, panicked, subscribed, activityCount,
                   probeCount, sendErrors, eventsHandled, lastEvent, lastStatus,
                   exitApplied>>
    /\ UNCHANGED <<runVars, classifyVars, scanVars>>

NextActivity ==
    \/ onBeaconClientConnected
    \/ \E m \in Payloads : onBeaconClientMessage(m)
    \/ LoopStop
    \/ MainWake
    \/ MainSignalDone

(***************************************************************************)
(* checkSoloMigrations.run                                                 *)
(***************************************************************************)
Runs == 1..NumRuns

Free == <<"free", 0>>

RunInit ==
    /\ isRunning = FALSE
    /\ lock = Free
    /\ pcRun = [i \in Runs |-> "idle"]
    /\ pcGo = [i \in Runs |-> "none"]
    /\ scansStarted = 0
    /\ submits = [i \in Runs |-> 0]
    /\ atlasArg = [i \in Runs |-> "none"]

\* the error checkSoloMigrations(state) returns: its only return is `return nil`
ScanError == "nil"

\* mutant: the flag is left as it is when the scan is over
ClearRunningKeep == isRunning

\* the value stored by `t.isRunning = false` after the scan / in handleError
ClearRunning == FALSE

\* the guard `if t.isRunning` read under the lock
AlreadyRunning == isRunning

\* mutant: the isAtlasDeployed test is missing
AfterGuardsNoAtlas(synced, isAtlasDeployed) ==
    IF ~synced THEN "returnedErr" ELSE "lock"

\* run(): where the invocation stands after the two sync waits and the
\* `if !isAtlasDeployed { return nil }` test
AfterGuards(synced, isAtlasDeployed) ==
    IF ~synced THEN "returnedErr"
    ELSE IF ~isAtlasDeployed THEN "returnedNoop"
    ELSE "lock"

\* run(): the sync waits and the isAtlasDeployed test
RunEnter(i) ==
    /\ pcRun[i] = "idle"
    /\ \E synced \in BOOLEAN, isAtlasDeployed \in BOOLEAN :
         /\ pcRun' = [pcRun EXCEPT ![i] = AfterGuards(synced, isAtlasDeployed)]
         /\ atlasArg' = [atlasArg EXCEPT ![i] =
                           IF isAtlasDeployed THEN "enabled" ELSE "disabled"]
    /\ UNCHANGED <<isRunning, lock, pcGo, scansStarted, submits>>
    /\ UNCHANGED <<activityVars, classifyVars, scanVars>>

\* run(): t.lock.Lock()
RunLock(i) ==
    /\ pcRun[i] = "lock"
    /\ lock = Free
    /\ lock' = <<"run", i>>
    /\ pcRun' = [pcRun EXCEPT ![i] = "check"]
    /\ UNCHANGED <<isRunning, pcGo, scansStarted, submits, atlasArg>>
    /\ UNCHANGED <<activityVars, classifyVars, scanVars>>

\* run(): if t.isRunning { log; Unlock; return nil }; Unlock
RunCheck(i) ==
    /\ pcRun[i] = "check"
    /\ lock = <<"run", i>>
    /\ lock' = Free
    /\ pcRun' = [pcRun EXCEPT ![i] = IF AlreadyRunning THEN "returnedBusy" ELSE "spawn"]
    /\ UNCHANGED <<isRunning, pcGo, scansStarted, submits, atlasArg>>
    /\ UNCHANGED <<activityVars, classifyVars, scanVars>>

\* run(): go func() {...}(); return nil
RunSpawn(i) ==
    /\ pcRun[i] = "spawn"
    /\ pcRun' = [pcRun EXCEPT ![i] = "returned"]
    /\ pcGo' = [pcGo EXCEPT ![i] = "lock"]
    /\ UNCHANGED <<isRunning, lock, scansStarted, submits, atlasArg>>
    /\ UNCHANGED <<activityVars, classifyVars, scanVars>>

\* goroutine: t.lock.Lock()
GoLock(i) ==
    /\ pcGo[i] = "lock"
    /\ lock = Free
    /\ lock' = <<"go", i>>
    /\ pcGo' = [pcGo EXCEPT ![i] = "set"]
    /\ UNCHANGED <<isRunning, pcRun, scansStarted, submits, atlasArg>>
    /\ UNCHANGED <<activityVars, classifyVars, scanVars>>

\* goroutine: t.isRunning = true; t.lock.Unlock()
GoSetRunning(i) ==
    /\ pcGo[i] = "set"
    /\ lock = <<"go", i>>
    /\ isRunning' = TRUE
    /\ lock' = Free
    /\ pcGo' = [pcGo EXCEPT ![i] = "start"]
    /\ UNCHANGED <<pcRun, scansStarted, submits, atlasArg>>
    /\ UNCHANGED <<activityVars, classifyVars, scanVars>>

\* goroutine: printMessage; err := t.checkSoloMigrations(state) is entered
GoScanStart(i) ==
    /\ pcGo[i] = "start"
    /\ pcGo' = [pcGo EXCEPT ![i] = "scan"]
    /\ scansStarted' = scansStarted + 1
    /\ UNCHANGED <<isRunning, lock, pcRun, submits, atlasArg>>
    /\ UNCHANGED <<activityVars, classifyVars, scanVars>>

\* scan: scrubVacantMinipool reaches the gas estimate for some minipool
GoSubmitBegin(i) ==
    /\ pcGo[i] = "scan"
    /\ submits[i] < MaxScrubs
    /\ pcGo' = [pcGo EXCEPT ![i] = "submit"]
    /\ submits' = [submits EXCEPT ![i] = @ + 1]
    /\ UNCHANGED <<isRunning, lock, pcRun, scansStarted, atlasArg>>
    /\ UNCHANGED <<activityVars, classifyVars, scanVars>>

\* scan: that scrubVacantMinipool call returns (included, failed or vetoed)
GoSubmitEnd(i) ==
    /\ pcGo[i] = "submit"
    /\ pcGo' = [pcGo EXCEPT ![i] = "scan"]
    /\ UNCHANGED <<isRunning, lock, pcRun, scansStarted, submits, atlasArg>>
    /\ UNCHANGED <<activityVars, classifyVars, scanVars>>

\* scan: the loop is over, checkSoloMigrations returns; `if err != nil`
GoScanReturn(i) ==
    /\ pcGo[i] = "scan"
    /\ pcGo' = [pcGo EXCEPT ![i] = IF ScanError # "nil" THEN "failed" ELSE "finished"]
    /\ UNCHANGED <<isRunning, lock, pcRun, scansStarted, submits, atlasArg>>
    /\ UNCHANGED <<activityVars, classifyVars, scanVars>>

\* goroutine / handleError: t.lock.Lock()
GoRelock(i) ==
    /\ pcGo[i] \in {"finished", "failed"}
    /\ lock = Free
    /\ lock' = <<"go", i>>
    /\ pcGo' = [pcGo EXCEPT ![i] = "clear"]
    /\ UNCHANGED <<isRunning, pcRun, scansStarted, submits, atlasArg>>
    /\ UNCHANGED <<activityVars, classifyVars, scanVars>>

\* goroutine / handleError: t.isRunning = false; t.lock.Unlock()
GoClearRunning(i) ==
    /\ pcGo[i] = "clear"
    /\ lock = <<"go", i>>
    /\ isRunning' = ClearRunning
    /\ lock' = Free
    /\ pcGo' = [pcGo EXCEPT ![i] = "done"]
    /\ UNCHANGED <<pcRun, scansStarted, submits, atlasArg>>
    /\ UNCHANGED <<activityVars, classifyVars, scanVars>>

NextRun ==
    \E i \in Runs :
        \/ RunEnter(i)
        \/ RunLock(i)
        \/ RunCheck(i)
        \/ RunSpawn(i)
        \/ GoLock(i)
        \/ GoSetRunning(i)
        \/ GoScanStart(i)
        \/ GoSubmitBegin(i)
        \/ GoSubmitEnd(i)
        \/ GoScanReturn(i)
        \/ GoRelock(i)
        \/ GoClearRunning(i)

\* the scheduler of goroutines runs every runnable goroutine, and the mutex
\* hands the lock to every waiter; the scan itself may block for ever
RunFairness ==
    \A i \in Runs :
        /\ WF_vars(RunCheck(i))
        /\ SF_vars(GoRelock(i))
        /\ WF_vars(GoClearRunning(i))
        /\ SF_vars(GoLock(i))
        /\ WF_vars(GoSetRunning(i))

(***************************************************************************)
(* checkSoloMigrations.checkSoloMigrations: the body of the minipool loop  *)
(*                                                                         *)
(* Scale.  TLC integers are 32 bits wide, so balances are counted in       *)
(* units of 1_000_000 gwei (the size of the tolerance buffer): the 32 ETH  *)
(* threshold is 32000 units and the buffer is 1 unit.  uint64 is modelled  *)
(* as arithmetic modulo 2^16 units, and one unit is 2 "wei" so that the    *)
(* wei -> gwei conversion keeps its flooring division.                     *)
(***************************************************************************)
soloMigrationCheckThresholdNum == 85
soloMigrationCheckThresholdDen == 100
blsPrefix == 0
elPrefix == 1
threshold == 32000
buffer == 1
UintMod == 2^16
WeiPerGwei == 2

Dissolved == "Dissolved"
ActiveOngoing == "active_ongoing"

\* big.NewInt(0).Div(x, oneGwei).Uint64()
WeiToGwei(wei) == (wei \div WeiPerGwei) % UintMod

\* uint64 addition and subtraction
AddU64(a, b) == (a + b) % UintMod
SubU64(a, b) == (a + UintMod - b) % UintMod

\* withdrawal credentials: <<prefix byte, payload>>
Cred00  == <<0, 170>>
Cred01A == <<1, 170>>
Cred01B == <<1, 187>>
Cred02  == <<2, 170>>

\* the zero value a Go map returns for a missing key
ZeroValidator ==
    [Exists |-> FALSE, Status |-> "", WithdrawalCredentials |-> <<0, 0>>, Balance |-> 0]

ValidatorRecords ==
    [Exists : {TRUE},
     Status : {ActiveOngoing, "pending_queued"},
     WithdrawalCredentials : {Cred00, Cred01A, Cred01B, Cred02},
     Balance : {0, threshold - 1, threshold, threshold + 1, UintMod - 1}]

MinipoolRecords ==
    [Status : {Dissolved, "Prelaunch"},
     IsVacant : BOOLEAN,
     Pubkey : {1},
     StatusTime : {0, 1},
     WithdrawalCredentials : {Cred01A},
     PreMigrationBalance : {0, 1, WeiPerGwei * threshold, WeiPerGwei * (threshold + 2)},
     Balance : {0, WeiPerGwei, WeiPerGwei + 1}]

\* state.ValidatorDetails: a map from pubkey to validator record
ValidatorMaps == {<<>>} \cup {<<v>> : v \in ValidatorRecords}

Snapshots ==
    [GenesisTime : {0, 1},
     SecondsPerSlot : {4, 6},
     BeaconSlotNumber : 0..MaxSlot,
     PromotionScrubPeriod : {10, 20},
     Minipool : MinipoolRecords,
     ValidatorDetails : ValidatorMaps]

\* state.ValidatorDetails[mpd.Pubkey]
LookupValidator(details, pubkey) ==
    IF pubkey \in DOMAIN details THEN details[pubkey] ELSE ZeroValidator

\* mutant: the whole scrub period is allowed
scrubThresholdFull(s) == s.PromotionScrubPeriod

\* time.Duration(PromotionScrubPeriod.Seconds()*soloMigrationCheckThreshold) * time.Second
scrubThreshold(s) ==
    (s.PromotionScrubPeriod * soloMigrationCheckThresholdNum)
        \div soloMigrationCheckThresholdDen

\* mutant: the current time of the machine is used instead of the slot time
blockTimeWallClock(s) == IF scanNo = 0 THEN 0 ELSE wallClock[scanNo]

\* genesisTime.Add(secondsForSlot)
blockTime(s) == s.GenesisTime + s.BeaconSlotNumber * s.SecondsPerSlot

\* creationTime.Add(scrubThreshold).Sub(blockTime)
remainingTime(s, mpd) == (mpd.StatusTime + scrubThreshold(s)) - blockTime(s)

\* mutant: only dissolved minipools are ignored
SkippedDissolvedOnly(mpd) == mpd.Status = Dissolved

\* the two `continue`s at the head of the loop
Skipped(mpd) == mpd.Status = Dissolved \/ ~mpd.IsVacant

\* the balance check at the end of the loop body
BalanceCheck(mpd, validator) ==
    LET creationBalanceGwei == WeiToGwei(mpd.PreMigrationBalance)
        minipoolBalanceGwei == WeiToGwei(mpd.Balance)
        currentBalance      == AddU64(validator.Balance, minipoolBalanceGwei)
    IN  IF currentBalance < threshold THEN <<"below_threshold">>
        ELSE IF currentBalance < SubU64(creationBalanceGwei, buffer)
             THEN <<"below_creation">>
             ELSE <<>>

\* switch withdrawalCreds[0] and what follows it
CredentialCheck(s, mpd, validator) ==
    LET withdrawalCreds == validator.WithdrawalCredentials
    IN  IF withdrawalCreds[1] = blsPrefix
        THEN IF remainingTime(s, mpd) < 0 THEN <<"timed_out">> ELSE <<>>
        ELSE IF withdrawalCreds[1] = elPrefix
        THEN IF withdrawalCreds # mpd.WithdrawalCredentials
             THEN <<"creds_mismatch">>
             ELSE BalanceCheck(mpd, validator)
        ELSE <<"bad_prefix">>

\* one iteration of `for _, mpd := range state.MinipoolDetails`: the reasons
\* of the scrubVacantMinipool calls it makes, in order
LoopBody(s) ==
    LET mpd       == s.Minipool
        validator == LookupValidator(s.ValidatorDetails, mpd.Pubkey)
        unseen    == IF ~validator.Exists THEN <<"not_on_beacon">> ELSE <<>>
    IN  IF Skipped(mpd) THEN <<>>
        ELSE IF validator.Status # ActiveOngoing
        THEN unseen \o <<"wrong_state">>
        ELSE unseen \o CredentialCheck(s, mpd, validator)

IdleSnapshot ==
    [GenesisTime |-> 0, SecondsPerSlot |-> 4, BeaconSlotNumber |-> 0,
     PromotionScrubPeriod |-> 10,
     Minipool |-> [Status |-> Dissolved, IsVacant |-> FALSE, Pubkey |-> 1,
                   StatusTime |-> 0, WithdrawalCredentials |-> Cred01A,
                   PreMigrationBalance |-> 0, Balance |-> 0],
     ValidatorDetails |-> <<>>]

ClassifyIdle ==
    /\ snap = IdleSnapshot
    /\ scrubs = <<>>
    /\ cpc = "idle"

ClassifyInit ==
    /\ snap \in Snapshots
    /\ scrubs = <<>>
    /\ cpc = "ready"

\* the loop body runs on the snapshot entry
CheckMinipool ==
    /\ cpc = "ready"
    /\ scrubs' = LoopBody(snap)
    /\ cpc' = "done"
    /\ UNCHANGED snap
    /\ UNCHANGED <<activityVars, runVars, scanVars>>

NextClassify == CheckMinipool

(***************************************************************************)
(* checkSoloMigrations.checkSoloMigrations over a whole snapshot, with     *)
(* scrubVacantMinipool                                                     *)
(***************************************************************************)
\* the kinds of minipool a scanned snapshot is built from
MinipoolKinds == {"not_vacant", "unseen", "wrong_state", "bls", "migrated", "mismatch"}

\* the minipool record of a kind; its pubkey is its position in the snapshot
MinipoolOfKind(kind, pubkey) ==
    [Status |-> "Prelaunch",
     IsVacant |-> (kind # "not_vacant"),
     Pubkey |-> pubkey,
     StatusTime |-> 0,
     WithdrawalCredentials |-> Cred01A,
     PreMigrationBalance |-> WeiPerGwei * threshold,
     Balance |-> 0]

\* kinds whose validator has a record on Beacon
SeenKinds == {"wrong_state", "bls", "migrated", "mismatch"}

\* the validator record of a kind
ValidatorOfKind(kind) ==
    [Exists |-> TRUE,
     Status |-> IF kind = "wrong_state" THEN "pending_queued" ELSE ActiveOngoing,
     WithdrawalCredentials |->
         CASE kind = "bls" -> Cred00
           [] kind = "mismatch" -> Cred01B
           [] OTHER -> Cred01A,
     Balance |-> threshold]

\* the snapshots handed to the scan: state.MinipoolDetails is a list, and
\* state.ValidatorDetails a map keyed by pubkey
ScanSnapshots ==
    UNION {
      { [GenesisTime |-> 0,
         SecondsPerSlot |-> 4,
         BeaconSlotNumber |-> slot,
         PromotionScrubPeriod |-> 10,
         MinipoolDetails |-> [k \in 1..n |-> MinipoolOfKind(kinds[k], k)],
         ValidatorDetails |-> [k \in {j \in 1..n : kinds[j] \in SeenKinds}
                                 |-> ValidatorOfKind(kinds[k])]]
        : kinds \in [1..n -> MinipoolKinds], slot \in {0, MaxSlot} }
      : n \in 1..MaxMinipools }

\* the time the auditing machine may show while a scan runs
WallClocks == {0, 20}

\* the entry of the range loop at index k, with the snapshot's time context
Entry(s, k) ==
    [GenesisTime |-> s.GenesisTime,
     SecondsPerSlot |-> s.SecondsPerSlot,
     BeaconSlotNumber |-> s.BeaconSlotNumber,
     PromotionScrubPeriod |-> s.PromotionScrubPeriod,
     Minipool |-> s.MinipoolDetails[k],
     ValidatorDetails |-> s.ValidatorDetails]

NoCall ==
    [mp |-> 0, reason |-> "-", pc |-> "none", est |-> "-", gate |-> "-",
     opts |-> FALSE, txSent |-> FALSE, txOpts |-> FALSE, waited |-> FALSE,
     ret |-> "-"]

IdleScanSnapshot ==
    [GenesisTime |-> 0, SecondsPerSlot |-> 4, BeaconSlotNumber |-> 0,
     PromotionScrubPeriod |-> 10,
     MinipoolDetails |-> <<>>, ValidatorDetails |-> <<>>]

ScanIdle ==
    /\ scanSnap = IdleScanSnapshot
    /\ scanPc = "idle"
    /\ scanNo = 0
    /\ idx = 1
    /\ cur = 0
    /\ pending = <<>>
    /\ call = NoCall
    /\ decisions = [r \in 1..NumScans |-> <<>>]
    /\ errorsReturned = 0
    /\ firstFailed = 0
    /\ errLogged = 0
    /\ wallClock = [r \in 1..NumScans |-> 0]

ScanInit ==
    /\ scanSnap \in ScanSnapshots
    /\ scanPc = "idle"
    /\ scanNo = 0
    /\ idx = 1
    /\ cur = 0
    /\ pending = <<>>
    /\ call = NoCall
    /\ decisions = [r \in 1..NumScans |-> <<>>]
    /\ errorsReturned = 0
    /\ firstFailed = 0
    /\ errLogged = 0
    /\ wallClock = [r \in 1..NumScans |-> 0]

\* no scrubVacantMinipool call is in progress
CallOver == call.pc \in {"none", "returned"}

\* mutant: the loop gives up when a scrubVacantMinipool call returns an error
AbortOnErrorReturned(ret) == ret = "error"

\* what the loop does with the error scrubVacantMinipool returns: the call is
\* an expression statement, its result is dropped
AbortOnError(ret) == FALSE

\* mutant: a failed gas estimate is not looked at
AfterEstimateIgnored(ok) == "gate"

\* `if err != nil { return fmt.Errorf("could not estimate ...") }`
AfterEstimate(ok) == IF ok THEN "gate" ELSE "returned"

\* mutant: the answer of the gas check is not looked at
AfterGateIgnored(approved) == "submit"

\* `if !api.PrintAndCheckGasInfo(...) { return nil }`
AfterGate(approved) == IF approved THEN "submit" ELSE "returned"

\* lines a returned error adds to t.errLog: the loop never writes to it
ErrorLines(ret) == 0

\* checkSoloMigrations(state) is entered: the time context is computed
ScanStart ==
    /\ scanPc \in {"idle", "returned"}
    /\ scanNo < NumScans
    /\ scanNo' = scanNo + 1
    /\ \E now \in WallClocks : wallClock' = [wallClock EXCEPT ![scanNo + 1] = now]
    /\ scanPc' = "loop"
    /\ idx' = 1
    /\ cur' = 0
    /\ pending' = <<>>
    /\ call' = NoCall
    /\ errorsReturned' = 0
    /\ firstFailed' = 0
    /\ errLogged' = 0
    /\ UNCHANGED <<scanSnap, decisions>>
    /\ UNCHANGED <<activityVars, runVars, classifyVars>>

\* the range loop takes the next entry and the loop body decides its scrubs
ScanIterate ==
    /\ scanPc = "loop"
    /\ pending = <<>>
    /\ CallOver
    /\ idx <= Len(scanSnap.MinipoolDetails)
    /\ cur' = idx
    /\ idx' = idx + 1
    /\ pending' = LoopBody(Entry(scanSnap, idx))
    /\ UNCHANGED <<scanSnap, scanPc, scanNo, call, decisions, errorsReturned,
                   firstFailed, errLogged, wallClock>>
    /\ UNCHANGED <<activityVars, runVars, classifyVars>>

\* a step of scrubVacantMinipool has left the call in state c; when it has
\* returned, the loop goes on (the returned error is dropped)
CallBecomes(c) ==
    /\ call' = c
    /\ IF c.pc = "returned" /\ c.ret = "error"
       THEN /\ errorsReturned' = errorsReturned + 1
            /\ firstFailed' = IF firstFailed = 0 THEN c.mp ELSE firstFailed
            /\ errLogged' = errLogged + ErrorLines(c.ret)
       ELSE UNCHANGED <<errorsReturned, firstFailed, errLogged>>
    /\ IF c.pc = "returned" /\ AbortOnError(c.ret)
       THEN /\ scanPc' = "returned"
            /\ pending' = <<>>
       ELSE /\ UNCHANGED scanPc
            /\ pending' = IF call.pc \in {"none", "returned"}
                          THEN Tail(pending) ELSE pending

\* scrubVacantMinipool is called: banner, minipool.NewMinipool
ScrubBinding ==
    /\ scanPc = "loop"
    /\ pending # <<>>
    /\ CallOver
    /\ decisions' = [decisions EXCEPT ![scanNo] = Append(@, <<cur, Head(pending)>>)]
    /\ \E ok \in BOOLEAN :
         CallBecomes([NoCall EXCEPT !.mp = cur, !.reason = Head(pending),
                                    !.pc = IF ok THEN "transactor" ELSE "returned",
                                    !.ret = IF ok THEN "-" ELSE "error"])
    /\ UNCHANGED <<scanSnap, scanNo, idx, cur, wallClock>>
    /\ UNCHANGED <<activityVars, runVars, classifyVars>>

\* t.w.GetNodeAccountTransactor()
ScrubTransactor ==
    /\ call.pc = "transactor"
    /\ \E ok \in BOOLEAN :
         CallBecomes([call EXCEPT !.pc = IF ok THEN "estimate" ELSE "returned",
                                  !.ret = IF ok THEN "-" ELSE "error"])
    /\ UNCHANGED <<scanSnap, scanNo, idx, cur, decisions, wallClock>>
    /\ UNCHANGED <<activityVars, runVars, classifyVars>>

\* mp.EstimateVoteScrubGas(opts)
ScrubEstimate ==
    /\ call.pc = "estimate"
    /\ \E ok \in BOOLEAN :
         CallBecomes([call EXCEPT !.est = IF ok THEN "ok" ELSE "failed",
                                  !.pc = AfterEstimate(ok),
                                  !.ret = IF AfterEstimate(ok) = "returned"
                                          THEN "error" ELSE "-"])
    /\ UNCHANGED <<scanSnap, scanNo, idx, cur, decisions, wallClock>>
    /\ UNCHANGED <<activityVars, runVars, classifyVars>>

\* api.PrintAndCheckGasInfo against the max fee; on approval GasFeeCap,
\* GasTipCap and GasLimit are set
ScrubGate ==
    /\ call.pc = "gate"
    /\ \E approved \in BOOLEAN :
         CallBecomes([call EXCEPT !.gate = IF approved THEN "approved" ELSE "vetoed",
                                  !.pc = AfterGate(approved),
                                  !.opts = (AfterGate(approved) = "submit"),
                                  !.ret = IF AfterGate(approved) = "returned"
                                          THEN "nil" ELSE "-"])
    /\ UNCHANGED <<scanSnap, scanNo, idx, cur, decisions, wallClock>>
    /\ UNCHANGED <<activityVars, runVars, classifyVars>>

\* mp.VoteScrub(opts)
ScrubSubmit ==
    /\ call.pc = "submit"
    /\ \E ok \in BOOLEAN :
         CallBecomes([call EXCEPT !.txSent = ok,
                                  !.txOpts = (ok /\ call.opts),
                                  !.pc = IF ok THEN "wait" ELSE "returned",
                                  !.ret = IF ok THEN "-" ELSE "error"])
    /\ UNCHANGED <<scanSnap, scanNo, idx, cur, decisions, wallClock>>
    /\ UNCHANGED <<activityVars, runVars, classifyVars>>

\* api.PrintAndWaitForTransaction; success line; return
ScrubWait ==
    /\ call.pc = "wait"
    /\ \E ok \in BOOLEAN :
         CallBecomes([call EXCEPT !.waited = TRUE,
                                  !.pc = "returned",
                                  !.ret = IF ok THEN "nil" ELSE "error"])
    /\ UNCHANGED <<scanSnap, scanNo, idx, cur, decisions, wallClock>>
    /\ UNCHANGED <<activityVars, runVars, classifyVars>>

\* the range loop is over: return nil
ScanReturn ==
    /\ scanPc = "loop"
    /\ pending = <<>>
    /\ CallOver
    /\ idx > Len(scanSnap.MinipoolDetails)
    /\ scanPc' = "returned"
    /\ UNCHANGED <<scanSnap, scanNo, idx, cur, pending, call, decisions,
                   errorsReturned, firstFailed, errLogged, wallClock>>
    /\ UNCHANGED <<activityVars, runVars, classifyVars>>

NextScan ==
    \/ ScanStart
    \/ ScanIterate
    \/ ScrubBinding
    \/ ScrubTransactor
    \/ ScrubEstimate
    \/ ScrubGate
    \/ ScrubSubmit
    \/ ScrubWait
    \/ ScanReturn

(***************************************************************************)
(* Specifications                                                          *)
(***************************************************************************)
InitActivity == ActivityInit /\ RunInit /\ ClassifyIdle /\ ScanIdle
InitRun      == ActivityInit /\ RunInit /\ ClassifyIdle /\ ScanIdle
InitClassify == ActivityInit /\ RunInit /\ ClassifyInit /\ ScanIdle
InitScan     == ActivityInit /\ RunInit /\ ClassifyIdle /\ ScanInit

SpecActivity == InitActivity /\ [][NextActivity]_vars
SpecRun      == InitRun /\ [][NextRun]_vars
FairSpecRun  == SpecRun /\ RunFairness
SpecClassify == InitClassify /\ [][NextClassify]_vars
SpecScan     == InitScan /\ [][NextScan]_vars

(***************************************************************************)
(* Properties                                                              *)
(***************************************************************************)
\* goroutines that are inside checkSoloMigrations(state)
Scanning == {i \in Runs : pcGo[i] \in {"scan", "submit"}}

\* C1: at most one checkSoloMigrations scan is executing at any time, for
\* every number and interleaving of run(snapshot, true) invocations.
SingleFlight == Cardinality(Scanning) <= 1

\* the loop has just handled a decodable "epoch" message
EpochHandled ==
    /\ eventsHandled' = eventsHandled + 1
    /\ lastEvent'.Message = "epoch"

\* C2: handling an "epoch" message sends one "activity" message if and only
\* if the most recently applied own-key validator_status had code "active";
\* no other step sends an activity message.
HeartbeatRule ==
    [][ /\ (activityCount' # activityCount) =>
             (EpochHandled /\ lastStatus = "active"
                /\ activityCount' = activityCount + 1)
        /\ (EpochHandled /\ lastStatus = "active") =>
             (activityCount' = activityCount + 1) ]_vars

\* an epoch event answered by a heartbeat while the last applied status is active
HeartbeatRuleWitness ==
    /\ lastEvent.Message = "epoch"
    /\ lastStatus = "active"
    /\ activityCount >= 1

\* C3: once an exit-family status for the own key has been applied, no
\* "activity" message is ever sent afterwards.
NoHeartbeatAfterExit == [][exitApplied => activityCount' = activityCount]_vars

\* C4: done receives exactly one value in every execution that applies an
\* exit-family status (none before, never two, and one by the time the
\* process has ended), and none in executions that apply no such status.
DoneExactlyOnce ==
    /\ doneCount <= 1
    /\ ~exitApplied => doneCount = 0
    /\ (exitApplied /\ panicked) => doneCount = 1

\* C5: the stop channel is never closed a second time.
StopClosedAtMostOnce == ~panicked

\* no background goroutine is between its spawn and its last unlock
Quiescent == \A i \in Runs : pcGo[i] \in {"none", "done"}

\* C6: whenever a background scan has returned (or failed), its goroutine
\* goes on to clear isRunning under the lock, and when no goroutine is left
\* the flag is false, so a later run() starts a new scan.
RunningReleased ==
    /\ [](Quiescent => ~isRunning)
    /\ \A i \in Runs :
         (pcGo[i] \in {"finished", "failed"}) ~> (pcGo[i] = "done" /\ ~isRunning)

\* a finished goroutine has cleared the flag and another run() passed the guard
RunningReleasedWitness ==
    \E i, j \in Runs :
        /\ pcGo[i] = "done"
        /\ ~isRunning
        /\ pcRun[j] = "spawn"

\* the minipool and validator records the loop body looked at
TheMinipool  == snap.Minipool
TheValidator == LookupValidator(snap.ValidatorDetails, snap.Minipool.Pubkey)

\* a vacant, non-dissolved minipool whose validator exists and is active_ongoing
Audited ==
    /\ cpc = "done"
    /\ TheMinipool.IsVacant
    /\ TheMinipool.Status # Dissolved
    /\ TheValidator.Exists
    /\ TheValidator.Status = ActiveOngoing

\* blockTime > statusChangeTime + 0.85 x scrubPeriod, times 100
PastDeadline ==
    100 * (snap.GenesisTime + snap.BeaconSlotNumber * snap.SecondsPerSlot)
        > 100 * TheMinipool.StatusTime + 85 * snap.PromotionScrubPeriod

\* C7: an audited minipool with credential prefix 0x00 is scrubbed (once, as
\* timed out) iff blockTime > statusChangeTime + 0.85 x scrubPeriod; when
\* not past the deadline nothing is scrubbed and no other check is applied.
Prefix00Policy ==
    (Audited /\ TheValidator.WithdrawalCredentials[1] = 0) =>
        (scrubs = IF PastDeadline THEN <<"timed_out">> ELSE <<>>)

\* a prefix 0x00 minipool scrubbed after 0.85 of the period, before all of it
Prefix00PolicyWitness ==
    /\ Audited
    /\ TheValidator.WithdrawalCredentials[1] = 0
    /\ scrubs = <<"timed_out">>
    /\ snap.GenesisTime + snap.BeaconSlotNumber * snap.SecondsPerSlot
         <= TheMinipool.StatusTime + snap.PromotionScrubPeriod

\* validator balance + minipool balance in gwei units, over the integers
CombinedBalance ==
    TheValidator.Balance + (TheMinipool.Balance \div WeiPerGwei)

\* C8: an audited minipool with prefix 0x01 is scrubbed iff the credentials
\* differ OR combined < 32_000_000_000 OR combined < creationBalanceGwei -
\* 1_000_000, the comparisons read over the mathematical integers.
Prefix01Policy ==
    (Audited /\ TheValidator.WithdrawalCredentials[1] = 1) =>
        ((scrubs # <<>>) <=>
            \/ TheValidator.WithdrawalCredentials # TheMinipool.WithdrawalCredentials
            \/ CombinedBalance < 32000
            \/ CombinedBalance < (TheMinipool.PreMigrationBalance \div WeiPerGwei) - 1)

\* C9: a minipool that is Dissolved or not vacant is never scrubbed,
\* whatever its validator record.
SkipRule ==
    (cpc = "done" /\ (TheMinipool.Status = Dissolved \/ ~TheMinipool.IsVacant))
        => scrubs = <<>>

\* a non-vacant, non-dissolved minipool with no validator on Beacon, left alone
SkipRuleWitness ==
    /\ cpc = "done"
    /\ ~TheMinipool.IsVacant
    /\ TheMinipool.Status # Dissolved
    /\ ~TheValidator.Exists
    /\ scrubs = <<>>

\* C10: within one scan each minipool is scrubbed at most once.
OneScrubPerMinipool == cpc = "done" => Len(scrubs) <= 1

\* C15: a run() invocation given isAtlasDeployed = false starts no scan and
\* no goroutine, and its step leaves isRunning (and the lock) unchanged.
FeatureDisabledNoop ==
    /\ [](\A i \in Runs :
            atlasArg[i] = "disabled" =>
                (pcGo[i] = "none" /\ pcRun[i] \in {"returnedNoop", "returnedErr"}))
    /\ [][\A i \in Runs :
            (atlasArg[i] = "none" /\ atlasArg'[i] = "disabled") =>
                UNCHANGED <<isRunning, lock, pcGo, scansStarted, submits>>]_vars

\* a disabled invocation has returned while another one's scan is in flight
FeatureDisabledNoopWitness ==
    \E i, j \in Runs :
        /\ atlasArg[i] = "disabled"
        /\ pcRun[i] = "returnedNoop"
        /\ pcGo[j] = "scan"
        /\ isRunning

\* C16: when the done signal has been delivered the process is already
\* unsubscribed from "connected" and "message".
TerminationOrdering == doneCount >= 1 => ~subscribed

\* goroutines between the gas estimate and the end of the inclusion wait
Submitting == {i \in Runs : pcGo[i] = "submit"}

\* C17: at no time are two vote-scrub submissions in progress at once.
SerializedSubmission == Cardinality(Submitting) <= 1

\* the loop has just handled a "connected" event
ConnectedHandled ==
    /\ eventsHandled' = eventsHandled + 1
    /\ lastEvent' = ConnectedEvent

\* C18: every handled "connected" event makes exactly one
\* get_validator_status send attempt, whatever validatorActive is, and leaves
\* validatorActive, stop and the subscription unchanged, also when the send fails.
IdempotentProbe ==
    [][ConnectedHandled =>
          /\ probeCount' = probeCount + 1
          /\ activityCount' = activityCount
          /\ UNCHANGED <<validatorActive, stop, panicked, subscribed>>]_vars

\* an active validator probed twice, one of the sends having failed
IdempotentProbeWitness ==
    /\ lastEvent = ConnectedEvent
    /\ validatorActive
    /\ subscribed
    /\ probeCount >= 2
    /\ activityCount = 0
    /\ sendErrors >= 1

\* the loop has just handled a message payload
MessageHandled ==
    /\ eventsHandled' = eventsHandled + 1
    /\ lastEvent' # ConnectedEvent

\* a payload that is undecodable or carries another pubkey than the own key
Foreign(m) == ~Decodes(m) \/ m.Pubkey # HexEncode(OwnKey)

\* C19 (as stated): a foreign or undecodable message of any type, "epoch"
\* included, changes neither validatorActive nor stop and sends nothing;
\* "success" and "error" messages change no state.
ForeignIgnored ==
    [][MessageHandled =>
          /\ Foreign(lastEvent') =>
               (UNCHANGED <<validatorActive, stop>>
                  /\ activityCount' = activityCount /\ probeCount' = probeCount)
          /\ lastEvent'.Message \in {"success", "error"} =>
               UNCHANGED <<validatorActive, stop>>]_vars

\* C19 (amended): a foreign or undecodable message changes neither
\* validatorActive nor stop, and sends nothing unless it is an "epoch", which
\* is not matched against the key; "success" and "error" change no state.
ForeignIgnoredExceptEpoch ==
    [][MessageHandled =>
          /\ Foreign(lastEvent') =>
               (UNCHANGED <<validatorActive, stop>>
                  /\ probeCount' = probeCount
                  /\ (lastEvent'.Message # "epoch" => activityCount' = activityCount))
          /\ lastEvent'.Message \in {"success", "error"} =>
               UNCHANGED <<validatorActive, stop>>]_vars

\* an exit status for another validator's key was handled by an active process
ForeignIgnoredWitness ==
    /\ lastEvent.Message = "validator_status"
    /\ lastEvent.Pubkey = HexEncode(OtherKey)
    /\ lastEvent.Code \in ExitCodes
    /\ validatorActive
    /\ stop = "open"

\* the minipools of the scanned snapshot for which the loop body asks a scrub
Violators ==
    {k \in 1..Len(scanSnap.MinipoolDetails) : LoopBody(Entry(scanSnap, k)) # <<>>}

\* the minipools scrubVacantMinipool was called for in scan r
ScrubbedIn(r) == {decisions[r][n][1] : n \in 1..Len(decisions[r])}

\* C11: an error returned by scrubVacantMinipool for one minipool never
\* aborts the loop: when the scan returns, every violator of the snapshot,
\* also those after a failed one, has had its scrub call, and no other minipool.
FailureIsolation == scanPc = "returned" => ScrubbedIn(scanNo) = Violators

\* the first minipool's scrub failed and the second one's scrub was submitted
FailureIsolationWitness ==
    /\ scanPc = "returned"
    /\ firstFailed = 1
    /\ call.mp = 2
    /\ call.txSent

\* C12: when EstimateVoteScrubGas fails, the call submits no VoteScrub
\* transaction, starts no inclusion wait, and returns a non-nil error.
GasFailureSendsNothing ==
    call.est = "failed" =>
        (~call.txSent /\ ~call.waited /\ call.pc = "returned" /\ call.ret = "error")

\* a scrub call whose gas estimate failed
GasFailureSendsNothingWitness ==
    /\ call.est = "failed"
    /\ call.pc = "returned"

\* C13: a vetoing gas check makes the call return nil without a transaction;
\* a transaction is submitted only after a successful estimate and an
\* approving check, with the gas settings in place.
FeeGateAbstain ==
    /\ call.gate = "vetoed" =>
         (~call.txSent /\ ~call.waited /\ call.pc = "returned" /\ call.ret = "nil")
    /\ call.txSent =>
         (call.est = "ok" /\ call.gate = "approved" /\ call.txOpts)

\* a scrub call the gas check vetoed
FeeGateAbstainWitness ==
    /\ call.gate = "vetoed"
    /\ call.pc = "returned"
    /\ call.est = "ok"

\* scan r of the snapshot has returned
Completed(r) == r < scanNo \/ (r = scanNo /\ scanPc = "returned")

\* C14: every completed scan of one snapshot makes the same scrub calls with
\* the same reasons, whatever the machine's clock showed and whatever the
\* earlier scans' submissions did.
ClassificationDeterminism ==
    \A r \in 1..NumScans : Completed(r) => decisions[r] = decisions[1]

\* two scans at different machine times, both scrubbing a timed-out minipool
ClassificationDeterminismWitness ==
    /\ scanNo = 2
    /\ scanPc = "returned"
    /\ wallClock[1] # wallClock[2]
    /\ \E n \in 1..Len(decisions[2]) : decisions[2][n][2] = "timed_out"
    /\ errorsReturned >= 1

\* C20: every error a scrub call returned during the scan has its line in
\* the error log.
NoSilentScrubFailures == errorsReturned <= errLogged

\* C21: isRunning is true in every state in which a scan dispatched by run()
\* has been started and has not yet returned (it is classifying minipools or
\* inside a scrub submission).
RunFlagConsistency == Scanning # {} => isRunning

\* this step closes p.stop: the channel goes from open to closed, or a close
\* of the closed channel panics
StopClosing == stop' # stop \/ panicked' # panicked

\* the loop has just handled an own-key validator_status with an exit code
OwnExitHandled ==
    /\ MessageHandled
    /\ lastEvent'.Message = "validator_status"
    /\ lastEvent'.Pubkey = HexEncode(OwnKey)
    /\ lastEvent'.Code \in ExitCodes

\* C22: p.stop is closed only by the message handler while it handles a
\* validator_status for the own key with code exited, withdrawable or
\* withdrawn; as long as no such status has been applied the channel is open,
\* the process is subscribed and start() has not signalled done.
SoleTerminalTrigger ==
    /\ [][StopClosing => OwnExitHandled]_vars
    /\ [](~exitApplied =>
            (stop = "open" /\ subscribed /\ mainPc = "blocked" /\ doneCount = 0))

\* stop closed by an own-key exit status, after a connected event and an
\* epoch heartbeat, one of whose sends failed, had left it open
SoleTerminalTriggerWitness ==
    /\ stop = "closed"
    /\ ~panicked
    /\ lastEvent.Message = "validator_status"
    /\ lastEvent.Pubkey = HexEncode(OwnKey)
    /\ lastEvent.Code \in ExitCodes
    /\ probeCount >= 1
    /\ activityCount >= 1
    /\ sendErrors >= 1

====
